---------------------------- MODULE Spec2Model ----------------------------
(***************************************************************************)
(* A model of the Evolvra content automation tool (content_bot.py,         *)
(* writer.py, topics.py, utils.py).                                        *)
(*                                                                         *)
(* Text is modelled as TLA+ strings, character by character.  TLA+ string  *)
(* literals are ASCII, so the four non-ASCII characters the program deals  *)
(* with are written with ASCII stand-ins that occur nowhere else in the    *)
(* modelled texts:                                                         *)
(*     "~"  stands for U+2014, the em dash                                 *)
(*     "@"  stands for U+00E2, "$" for U+20AC, "&" for U+201D: the three   *)
(*          characters of the literal tested at writer.py line 125         *)
(***************************************************************************)
EXTENDS Naturals, Sequences, FiniteSets, TLC

VARIABLES
    \* the pure-function harness: an input, the results computed from it
    inp, out, phase,
    \* the command-line run: main, run_single, run_calendar, generate_package
    pc, args, env, mode, topics, item, gen, payload, log, files, stdout, status

harnessVars == <<inp, out, phase>>
runVars == <<pc, args, env, mode, topics, item, gen, payload, log, files, stdout, status>>
vars == <<inp, out, phase,
          pc, args, env, mode, topics, item, gen, payload, log, files, stdout, status>>

(***************************************************************************)
(* Characters and strings                                                  *)
(***************************************************************************)
UpperChars == "ABCDEFGHIJKLMNOPQRSTUVWXYZ"
LowerChars == "abcdefghijklmnopqrstuvwxyz"
DigitChars == "0123456789"
EmDash == "~"
Mojibake == "@$&"

Char(s, i) == SubSeq(s, i, i)

InStr(c, s) == \E i \in 1..Len(s) : Char(s, i) = c

\* Python's \s and str.strip() whitespace, restricted to ASCII
IsSpace(c) == c \in {" ", "\t", "\n", "\r", "\f"}

IsAlnum(c) == InStr(c, UpperChars) \/ InStr(c, LowerChars) \/ InStr(c, DigitChars)

\* str.lower() on one character
LowerChar(c) ==
    IF InStr(c, UpperChars)
    THEN Char(LowerChars, CHOOSE i \in 1..Len(UpperChars) : Char(UpperChars, i) = c)
    ELSE c

Least(S) == CHOOSE x \in S : \A y \in S : x <= y
Greatest(S) == CHOOSE x \in S : \A y \in S : x >= y

\* the concatenation of pieces[lo..hi], by halves
RECURSIVE FlattenRange(_, _, _)
FlattenRange(pieces, lo, hi) ==
    IF lo > hi THEN ""
    ELSE IF lo = hi THEN pieces[lo]
    ELSE FlattenRange(pieces, lo, (lo + hi) \div 2)
         \o FlattenRange(pieces, (lo + hi) \div 2 + 1, hi)

Flatten(pieces) == FlattenRange(pieces, 1, Len(pieces))

\* str.lower()
Lower(s) == Flatten([i \in 1..Len(s) |-> LowerChar(Char(s, i))])

RECURSIVE LStrip(_)
LStrip(s) ==
    IF s # "" /\ IsSpace(Char(s, 1)) THEN LStrip(SubSeq(s, 2, Len(s))) ELSE s

RECURSIVE RStrip(_)
RStrip(s) ==
    IF s # "" /\ IsSpace(Char(s, Len(s))) THEN RStrip(SubSeq(s, 1, Len(s) - 1)) ELSE s

\* str.strip()
Strip(s) == RStrip(LStrip(s))

\* pat in s
StartsAt(s, pat, i) == i + Len(pat) - 1 <= Len(s) /\ SubSeq(s, i, i + Len(pat) - 1) = pat

Contains(s, pat) ==
    LET m == Len(pat)
    IN  \E i \in 1..(Len(s) - m + 1) : SubSeq(s, i, i + m - 1) = pat

\* the strings of length n, and of length at most n, over an alphabet
RECURSIVE StringsOfLen(_, _)
StringsOfLen(alphabet, n) ==
    IF n = 0 THEN {""}
    ELSE {s \o c : s \in StringsOfLen(alphabet, n - 1), c \in alphabet}

StringsUpTo(alphabet, n) == UNION {StringsOfLen(alphabet, k) : k \in 0..n}

\* c * n
Repeat(c, n) == Flatten([i \in 1..n |-> c])

(***************************************************************************)
(* utils.py: slugify                                                       *)
(***************************************************************************)
\* re.sub(r"[^a-zA-Z0-9\s-]", "", text)
DropNonSlugChars(s) ==
    Flatten([i \in 1..Len(s) |->
               LET c == Char(s, i)
               IN  IF IsAlnum(c) \/ IsSpace(c) \/ c = "-" THEN c ELSE ""])

\* re.sub(r"[\s-]+", "-", cleaned): every maximal run of whitespace and
\* hyphens becomes one hyphen
IsSep(c) == IsSpace(c) \/ c = "-"

CollapseSeps(s) ==
    Flatten([i \in 1..Len(s) |->
               IF ~IsSep(Char(s, i)) THEN Char(s, i)
               ELSE IF i < Len(s) /\ IsSep(Char(s, i + 1)) THEN ""
               ELSE "-"])

SlugifyNoStrip(text) ==
    LET slug == CollapseSeps(Lower(DropNonSlugChars(text)))
    IN  IF slug = "" THEN "untitled" ELSE slug

slugify(text) ==
    LET cleaned == Lower(Strip(DropNonSlugChars(text)))
        slug == CollapseSeps(cleaned)
    IN  IF slug = "" THEN "untitled" ELSE slug

(***************************************************************************)
(* utils.py: META_SCHEMA, and jsonschema's validate on it.  A JSON value   *)
(* is a record [t |-> its JSON type, v |-> its value]; a JSON object is a  *)
(* function from its keys.                                                 *)
(***************************************************************************)
JStr(s) == [t |-> "string", v |-> s]
JNum(n) == [t |-> "number", v |-> n]
JArr(a) == [t |-> "array", v |-> a]

META_SCHEMA_SixKeywords ==
    [type |-> "object",
     properties |->
        [title |-> [type |-> "string"],
         keywords |-> [type |-> "array", items |-> [type |-> "string"],
                       minItems |-> 5, maxItems |-> 6],
         description |-> [type |-> "string", minLength |-> 155, maxLength |-> 160],
         platform |-> [type |-> "string"],
         date |-> [type |-> "string"],
         slug |-> [type |-> "string"]],
     required |-> {"title", "keywords", "description", "platform", "date", "slug"},
     additionalProperties |-> FALSE]

META_SCHEMA ==
    [type |-> "object",
     properties |->
        [title |-> [type |-> "string"],
         keywords |-> [type |-> "array", items |-> [type |-> "string"],
                       minItems |-> 5, maxItems |-> 5],
         description |-> [type |-> "string", minLength |-> 155, maxLength |-> 160],
         platform |-> [type |-> "string"],
         date |-> [type |-> "string"],
         slug |-> [type |-> "string"]],
     required |-> {"title", "keywords", "description", "platform", "date", "slug"},
     additionalProperties |-> FALSE]

\* a value against a property's subschema: type, then the keywords that
\* apply to that type
RECURSIVE ValidValue(_, _)
ValidValue(value, sub) ==
    /\ value.t = sub.type
    /\ "minLength" \in DOMAIN sub => Len(value.v) >= sub.minLength
    /\ "maxLength" \in DOMAIN sub => Len(value.v) <= sub.maxLength
    /\ "minItems" \in DOMAIN sub => Len(value.v) >= sub.minItems
    /\ "maxItems" \in DOMAIN sub => Len(value.v) <= sub.maxItems
    /\ "items" \in DOMAIN sub =>
          \A i \in 1..Len(value.v) : ValidValue(value.v[i], sub.items)

\* validate(instance, schema) does not raise
Validates(instance, schema) ==
    /\ schema.required \subseteq DOMAIN instance
    /\ schema.additionalProperties \/ DOMAIN instance \subseteq DOMAIN schema.properties
    /\ \A k \in DOMAIN instance \cap DOMAIN schema.properties :
          ValidValue(instance[k], schema.properties[k])

\* content_bot.validate_meta_schema: "ok", or the exception validate raises
validate_meta_schema(meta) ==
    IF Validates(meta, META_SCHEMA) THEN "ok" ELSE "ValidationError"

(***************************************************************************)
(* writer.py: validate_meta, the rule-based validator                      *)
(***************************************************************************)
\* meta.get(key, default) on the values validate_meta measures
MetaGet(meta, key, default) == IF key \in DOMAIN meta THEN meta[key] ELSE default

validate_meta(meta) ==
    (IF Len(MetaGet(meta, "keywords", JArr(<<>>)).v) # 5
     THEN <<"Keywords must include 5 items.">> ELSE <<>>)
    \o (IF ~(155 <= Len(MetaGet(meta, "description", JStr("")).v)
             /\ Len(MetaGet(meta, "description", JStr("")).v) <= 160)
        THEN <<"Description must be 155-160 characters.">> ELSE <<>>)
    \o (IF MetaGet(meta, "title", JStr("")).v = ""
        THEN <<"Title missing.">> ELSE <<>>)

(***************************************************************************)
(* writer.py: self_check, _extract_meta, _extract_social                   *)
(***************************************************************************)
REQUIRED_HEADINGS == <<"# ", "## Hook", "## Context", "## What to do next", "## Conclusion">>

FallbackKeywords ==
    <<"content systems", "AI automation", "digital marketing", "CRM workflows", "operations">>

\* str.count(pat): occurrences found left to right, without overlap
RECURSIVE CountFrom(_, _, _)
CountFrom(s, pat, i) ==
    LET later == {p \in i..Len(s) : StartsAt(s, pat, p)}
    IN  IF later = {} THEN 0 ELSE 1 + CountFrom(s, pat, Least(later) + Len(pat))

Count(s, pat) == CountFrom(s, pat, 1)

\* the first position at or after i holding character c, or Len(s) + 1
FindChar(s, c, i) ==
    Least({p \in i..Len(s) : Char(s, p) = c} \cup {Len(s) + 1})

\* str.split(sep) for a set of one-character separators
RECURSIVE SplitFrom(_, _, _)
SplitFrom(s, seps, start) ==
    LET cuts == {p \in start..Len(s) : Char(s, p) \in seps}
    IN  IF cuts = {} THEN <<SubSeq(s, start, Len(s))>>
        ELSE <<SubSeq(s, start, Least(cuts) - 1)>> \o SplitFrom(s, seps, Least(cuts) + 1)

Split(s, seps) == SplitFrom(s, seps, 1)

\* \w and \b of Python's re on str; "@" stands for the letter U+00E2
IsWordChar(c) == IsAlnum(c) \/ c = "_" \/ c = "@"

WordAt(line, w, i) ==
    /\ StartsAt(line, w, i)
    /\ i = 1 \/ ~IsWordChar(Char(line, i - 1))
    /\ i + Len(w) > Len(line) \/ ~IsWordChar(Char(line, i + Len(w)))

ClaimSubjects == {"we", "our team", "evolvra"}
ClaimVerbs == {"achieved", "increased", "grew", "boosted"}

\* \b(we|our team|evolvra)\b.*\b(achieved|increased|grew|boosted)\b.*\d+%
\* on one line ("." matches no line break), case ignored
FakeClaimInLine(raw) ==
    LET line == Lower(raw)
    IN  \E subj \in ClaimSubjects : \E i \in 1..Len(line) :
          /\ WordAt(line, subj, i)
          /\ \E verb \in ClaimVerbs : \E j \in (i + Len(subj))..Len(line) :
                /\ WordAt(line, verb, j)
                /\ \E m \in (j + Len(verb) + 1)..Len(line) :
                      InStr(Char(line, m - 1), DigitChars) /\ Char(line, m) = "%"

FakeClaim(text) ==
    LET lines == Split(text, {"\n"})
    IN  \E n \in 1..Len(lines) : FakeClaimInLine(lines[n])

RECURSIVE MissingHeadings(_, _)
MissingHeadings(text, i) ==
    IF i > Len(REQUIRED_HEADINGS) THEN <<>>
    ELSE (IF ~Contains(text, REQUIRED_HEADINGS[i])
          THEN <<"Missing heading: " \o REQUIRED_HEADINGS[i]>> ELSE <<>>)
         \o MissingHeadings(text, i + 1)

self_check(article_markdown) ==
    (IF Contains(article_markdown, Mojibake) THEN <<"Contains em dash.">> ELSE <<>>)
    \o MissingHeadings(article_markdown, 1)
    \o (IF Count(article_markdown, "## ") < 6
        THEN <<"Not enough section headings.">> ELSE <<>>)
    \o (IF ~Contains(article_markdown, "- [ ]") /\ ~Contains(article_markdown, "- ")
        THEN <<"Checklist missing.">> ELSE <<>>)
    \o (IF FakeClaim(article_markdown)
        THEN <<"Potential fabricated percentage claim.">> ELSE <<>>)

\* the length of the run of whitespace starting at position i
RECURSIVE SpaceRun(_, _)
SpaceRun(s, i) == IF i <= Len(s) /\ IsSpace(Char(s, i)) THEN 1 + SpaceRun(s, i + 1) ELSE 0

\* re.search(label + r"\s*(.+)", text).group(1), or "none" without a match:
\* at the leftmost occurrence of the label where the rest matches, \s* takes
\* the longest run of whitespace that still leaves .+ a character that is not
\* a line break, and .+ runs to the end of that line
GroupStartsAfter(text, q) ==
    {k \in 0..SpaceRun(text, q) : q + k <= Len(text) /\ Char(text, q + k) # "\n"}

MatchesLabelAt(text, label, p) ==
    StartsAt(text, label, p) /\ GroupStartsAfter(text, p + Len(label)) # {}

SearchLine(text, label) ==
    LET hits == {p \in 1..Len(text) : MatchesLabelAt(text, label, p)}
    IN  IF hits = {} THEN [found |-> FALSE, group |-> ""]
        ELSE LET p == Least(hits)
                 q == p + Len(label)
                 k == Greatest(GroupStartsAfter(text, q))
             IN  [found |-> TRUE,
                  group |-> SubSeq(text, q + k, FindChar(text, "\n", q + k) - 1)]

RECURSIVE StripEach(_)
StripEach(items) ==
    IF items = <<>> THEN <<>>
    ELSE (IF Strip(Head(items)) # "" THEN <<Strip(Head(items))>> ELSE <<>>)
         \o StripEach(Tail(items))

FirstN(items, n) == SubSeq(items, 1, IF Len(items) < n THEN Len(items) ELSE n)

extract_meta(article_markdown) ==
    LET keyword_match == SearchLine(article_markdown, "SEO Keywords:")
        description_match == SearchLine(article_markdown, "Meta Description:")
        keywords == IF keyword_match.found
                    THEN StripEach(Split(keyword_match.group, {",", ";"}))
                    ELSE <<>>
        description == IF description_match.found
                       THEN Strip(description_match.group) ELSE ""
    IN  [keywords |-> FirstN(keywords, 5), description |-> description]

\* re.search(r"Social Snippets:\s*(.*)", text, re.DOTALL): the group runs
\* from the end of the whitespace after the first label to the end of the text
extract_social(article_markdown) ==
    LET label == "Social Snippets:"
        hits == {p \in 1..Len(article_markdown) : StartsAt(article_markdown, label, p)}
    IN  IF hits = {} THEN ""
        ELSE LET p == Least(hits)
                 q == p + Len(label)
             IN  Strip(SubSeq(article_markdown, q + SpaceRun(article_markdown, q),
                              Len(article_markdown)))

(***************************************************************************)
(* topics.py: generate_topics.  The backend's response is read token by    *)
(* token; each character of the modelled response is one token:            *)
(*     "{" "}" ","   themselves                                            *)
(*     "k"  the member name "topics" with its colon                        *)
(*     "o"  another member name with its colon                             *)
(*     "a"  an array literal (the list of topic objects)                   *)
(*     "n"  a number literal                                               *)
(*     "x"  a word of prose                                                *)
(***************************************************************************)
JObj(members) == [t |-> "object", v |-> members]

KeyOf(c) == IF c = "k" THEN "topics" ELSE "other"

\* json.loads on the tokens from position i: one value, and where it ends
RECURSIVE ParseValue(_, _, _)
RECURSIVE ParseMembers(_, _, _, _)
ParseValue(s, arr, i) ==
    IF i > Len(s) THEN [ok |-> FALSE, next |-> i, val |-> JNum(0)]
    ELSE IF Char(s, i) = "a" THEN [ok |-> TRUE, next |-> i + 1, val |-> JArr(arr)]
    ELSE IF Char(s, i) = "n" THEN [ok |-> TRUE, next |-> i + 1, val |-> JNum(1)]
    ELSE IF Char(s, i) = "{"
         THEN IF i + 1 <= Len(s) /\ Char(s, i + 1) = "}"
              THEN [ok |-> TRUE, next |-> i + 2, val |-> JObj(<<>>)]
              ELSE ParseMembers(s, arr, i + 1, <<>>)
    ELSE [ok |-> FALSE, next |-> i, val |-> JNum(0)]

ParseMembers(s, arr, i, acc) ==
    IF i > Len(s) \/ Char(s, i) \notin {"k", "o"}
    THEN [ok |-> FALSE, next |-> i, val |-> JNum(0)]
    ELSE LET member == ParseValue(s, arr, i + 1)
             seen == (KeyOf(Char(s, i)) :> member.val) @@ acc
         IN  IF ~member.ok \/ member.next > Len(s)
             THEN [ok |-> FALSE, next |-> member.next, val |-> JNum(0)]
             ELSE IF Char(s, member.next) = ","
                  THEN ParseMembers(s, arr, member.next + 1, seen)
             ELSE IF Char(s, member.next) = "}"
                  THEN [ok |-> TRUE, next |-> member.next + 1, val |-> JObj(seen)]
             ELSE [ok |-> FALSE, next |-> member.next, val |-> JNum(0)]

\* json.loads(s): the value, or not ok for json.JSONDecodeError
json_loads(s, arr) ==
    LET r == ParseValue(s, arr, 1)
    IN  IF r.ok /\ r.next = Len(s) + 1
        THEN [ok |-> TRUE, val |-> r.val]
        ELSE [ok |-> FALSE, val |-> JNum(0)]

\* re.search(r"{.*}", raw, re.DOTALL).group(0): from the first "{" to the
\* last "}" after it; "" when there is no match
BraceMatch(raw) ==
    LET opens == {i \in 1..Len(raw) : Char(raw, i) = "{"}
        first == Least(opens)
        closes == {i \in 1..Len(raw) : Char(raw, i) = "}" /\ i > first}
    IN  IF opens = {} \/ closes = {} THEN ""
        ELSE SubSeq(raw, first, Greatest(closes))

\* .get("topics", []) on what json.loads returned
TopicsOf(parsed) ==
    IF parsed.t # "object" THEN [kind |-> "raise", value |-> "AttributeError"]
    ELSE IF "topics" \in DOMAIN parsed.v
         THEN [kind |-> "return", value |-> parsed.v["topics"]]
         ELSE [kind |-> "return", value |-> JArr(<<>>)]

\* the part of generate_topics after the backend call: raw is the stripped
\* response, arr the list its array literal denotes
generate_topics(raw, arr) ==
    LET direct == json_loads(raw, arr)
        match == BraceMatch(raw)
    IN  IF direct.ok THEN TopicsOf(direct.val)
        ELSE IF match = "" THEN [kind |-> "return", value |-> JArr(<<>>)]
        ELSE IF ~json_loads(match, arr).ok
             THEN [kind |-> "raise", value |-> "JSONDecodeError"]
        ELSE TopicsOf(json_loads(match, arr).val)

(***************************************************************************)
(* Articles: the sample article of tests/test_basic.py, line by line, with *)
(* the variations the checks are about.  An article is described by        *)
(*   removed   the part left out ("none" for the full article)             *)
(*   sections  the number of body sections between Context and the list    *)
(*   extra     a sentence added under the Hook heading ("" for none)       *)
(*   terms     the number of terms on the SEO Keywords line (0: no line)   *)
(*   sep       what separates the terms                                    *)
(*   desc      the text of the Meta Description line ("" for no line)      *)
(***************************************************************************)
MaxSections == 3
MaxTerms == 6

Term(i) == "term" \o Char(DigitChars, i + 1)

TermList(n) == [i \in 1..n |-> Term(i)]

\* sep.join(items)
JoinWith(items, sep) ==
    Flatten([i \in 1..Len(items) |-> IF i = 1 THEN items[i] ELSE sep \o items[i]])

RECURSIVE SectionLines(_)
SectionLines(n) ==
    IF n = 0 THEN <<>>
    ELSE SectionLines(n - 1) \o <<"## Section " \o Char(DigitChars, n + 1), "Details.">>

HeadingLine(h) ==
    IF h = "# " THEN "# Title" ELSE h

Unless(cond, lines) == IF cond THEN <<>> ELSE lines

ArticleLines(a) ==
    Unless(a.removed = "# ", <<HeadingLine("# ")>>)
    \o Unless(a.removed = "## Hook", <<HeadingLine("## Hook")>>)
    \o <<"Opening hook.">>
    \o Unless(a.extra = "", <<a.extra>>)
    \o Unless(a.removed = "## Context", <<HeadingLine("## Context")>>)
    \o <<"Context section.">>
    \o SectionLines(a.sections)
    \o Unless(a.removed = "## What to do next", <<HeadingLine("## What to do next")>>)
    \o Unless(a.removed = "checklist", <<"- Do this", "- Do that">>)
    \o Unless(a.removed = "## Conclusion", <<HeadingLine("## Conclusion")>>)
    \o <<"Wrap-up.">>
    \o Unless(a.terms = 0, <<"SEO Keywords: " \o JoinWith(TermList(a.terms), a.sep)>>)
    \o Unless(a.desc = "", <<"Meta Description: " \o a.desc>>)
    \o <<"Social Snippets:", "LinkedIn: ...">>

ArticleText(a) == "\n" \o JoinWith(ArticleLines(a), "\n") \o "\n"

EmDashSentence == "Plan first " \o EmDash \o " then write."
MojibakeSentence == "Plan first " \o Mojibake \o " then write."
ClaimSentence == "Our team increased leads by 40% last year."

RemovableParts ==
    {"none", "checklist"} \cup {REQUIRED_HEADINGS[i] : i \in 1..Len(REQUIRED_HEADINGS)}

ArticleInputs ==
    [removed : RemovableParts,
     sections : 0..MaxSections,
     extra : {"", EmDashSentence, MojibakeSentence, ClaimSentence},
     terms : {0} \cup (4..MaxTerms),
     sep : {", ", ";"},
     desc : {"", "A short summary of the article.", "Plan, write; publish."}]

(***************************************************************************)
(* The rest of the program's state while a single function is exercised    *)
(***************************************************************************)
NoArgs == [topic |-> "", calendar |-> ""]
NoEnv == [config |-> "missing", apikey |-> FALSE]

RunIdle ==
    /\ pc = "idle"
    /\ args = NoArgs
    /\ env = NoEnv
    /\ mode = ""
    /\ topics = <<>>
    /\ item = 0
    /\ gen = <<>>
    /\ payload = <<>>
    /\ log = <<>>
    /\ files = <<>>
    /\ stdout = <<>>
    /\ status = "idle"

(***************************************************************************)
(* slugify exercised: once on the input, then on its own output            *)
(***************************************************************************)
MaxSlugLen == 4

SlugAlphabet == {"a", "B", "7", "-", " ", "\t", "!"}

SlugInputs == StringsUpTo(SlugAlphabet, MaxSlugLen) \cup {"Hello World!", "My Topic"}

InitSlug == inp \in SlugInputs /\ out = <<>> /\ phase = "ready" /\ RunIdle

SlugifyInput ==
    /\ phase = "ready"
    /\ out' = <<slugify(inp)>>
    /\ phase' = "once"
    /\ UNCHANGED <<inp, runVars>>

SlugifyOutput ==
    /\ phase = "once"
    /\ out' = Append(out, slugify(out[1]))
    /\ phase' = "twice"
    /\ UNCHANGED <<inp, runVars>>

NextSlug == SlugifyInput \/ SlugifyOutput

SpecSlug == InitSlug /\ [][NextSlug]_vars

(***************************************************************************)
(* validate_meta_schema exercised on meta objects                          *)
(***************************************************************************)
MaxKeywords == 6

MetaKeys == {"title", "keywords", "description", "platform", "date", "slug"}
ScalarKeys == MetaKeys \ {"keywords"}

\* a well-formed meta's value under each key, and the variations of it
SampleValue(k, v) ==
    IF k = "title" THEN JStr("Test")
    ELSE IF k = "keywords"
         THEN JArr([i \in 1..v.keywords |->
                      IF v.numberItem /\ i = 1 THEN JNum(7) ELSE JStr(Term(i))])
    ELSE IF k = "description" THEN JStr(Repeat("x", v.desclen))
    ELSE IF k = "platform" THEN JStr("linkedin")
    ELSE IF k = "date" THEN JStr("2024-01-02")
    ELSE IF k = "slug" THEN JStr("test")
    ELSE JStr("extra")

MetaObject(v) ==
    [k \in (MetaKeys \ {v.dropped}) \cup (IF v.extra THEN {"author"} ELSE {}) |->
        IF k = v.number THEN JNum(7) ELSE SampleValue(k, v)]

MetaVariations ==
    [dropped : MetaKeys \cup {"none"},
     extra : BOOLEAN,
     number : ScalarKeys \cup {"none"},
     keywords : 0..MaxKeywords,
     numberItem : BOOLEAN,
     desclen : {0} \cup (154..161)]

InitMeta ==
    /\ inp \in {MetaObject(v) : v \in MetaVariations}
    /\ out = <<>> /\ phase = "ready" /\ RunIdle

ValidateSchema ==
    /\ phase = "ready"
    /\ out' = <<validate_meta_schema(inp)>>
    /\ phase' = "validated"
    /\ UNCHANGED <<inp, runVars>>

NextMeta == ValidateSchema

SpecMeta == InitMeta /\ [][NextMeta]_vars

(***************************************************************************)
(* self_check (validate_article_structure) and _extract_meta exercised on  *)
(* articles                                                                *)
(***************************************************************************)
InitText == inp \in ArticleInputs /\ out = <<>> /\ phase = "ready" /\ RunIdle

SelfCheckArticle ==
    /\ phase = "ready"
    /\ out' = [errors |-> self_check(ArticleText(inp))]
    /\ phase' = "checked"
    /\ UNCHANGED <<inp, runVars>>

ExtractMeta ==
    /\ phase = "checked"
    /\ out' = [errors |-> out.errors, meta |-> extract_meta(ArticleText(inp))]
    /\ phase' = "extracted"
    /\ UNCHANGED <<inp, runVars>>

NextText == SelfCheckArticle \/ ExtractMeta

SpecText == InitText /\ [][NextText]_vars

(***************************************************************************)
(* generate_topics exercised on backend responses                          *)
(***************************************************************************)
MaxRawLen == 4

Tokens == {"{", "}", ",", "k", "o", "a", "n", "x"}

OneTopic == <<[title |-> "My Topic", angle |-> "Start small"]>>

InitTopics ==
    /\ inp \in StringsUpTo(Tokens, MaxRawLen)
    /\ out = <<>> /\ phase = "ready" /\ RunIdle

ParseTopics ==
    /\ phase = "ready"
    /\ out' = generate_topics(inp, OneTopic)
    /\ phase' = "returned"
    /\ UNCHANGED <<inp, runVars>>

NextTopics == ParseTopics

SpecTopics == InitTopics /\ [][NextTopics]_vars

(***************************************************************************)
(* content_bot.py: main, run_single, run_calendar, with                    *)
(* ContentWriter.generate_package step by step.  The backend answers each  *)
(* call with one of a few texts, or fails.                                 *)
(***************************************************************************)
MaxTopics == 2

Today == "2024-01-02"

GoodArticle ==
    [removed |-> "none", sections |-> 3, extra |-> "", terms |-> 5, sep |-> ", ",
     desc |-> Repeat("x", 155)]

\* what the backend may return for an article or a revision, before
\* .strip(): the sample article; one without its Conclusion heading and
\* without a keywords line; one whose description is a character short
ArticleResponses ==
    {ArticleText(GoodArticle),
     ArticleText([GoodArticle EXCEPT !.removed = "## Conclusion", !.terms = 0]),
     ArticleText([GoodArticle EXCEPT !.desc = Repeat("x", 154)])}

\* the three pure functions of generate_package, tabulated once over the
\* texts they can be given here: the stripped responses
ArticleTexts == {Strip(resp) : resp \in ArticleResponses}
self_check_of == [text \in ArticleTexts |-> self_check(text)]
extract_meta_of == [text \in ArticleTexts |-> extract_meta(text)]
extract_social_of == [text \in ArticleTexts |-> extract_social(text)]

OutlineResponses == {" 1. Hook\n 2. Context\n"}

\* topic objects the backend may list: with a title, with an empty title,
\* without one
TopicObjects == {[title |-> "My Topic"], [title |-> ""], [angle |-> "Start small"]}

RECURSIVE ListsOfLen(_, _)
ListsOfLen(S, n) ==
    IF n = 0 THEN {<<>>}
    ELSE {Append(l, x) : l \in ListsOfLen(S, n - 1), x \in S}

TopicLists == UNION {ListsOfLen(TopicObjects, n) : n \in 0..MaxTopics}

\* responses to the topics prompt: the object alone, the object inside
\* prose, prose without braces, braces around prose, a bare array
TopicResponses == {"{ka}", "x{ka}x", "xx", "{x}", "a"}

CommandLines == [topic : {"", "My Topic"}, calendar : {"", "weekly"}]
Environments == [config : {"missing", "empty", "incomplete", "ok"}, apikey : BOOLEAN]

Init ==
    /\ inp = <<>> /\ out = <<>> /\ phase = "idle"
    /\ pc = "main"
    /\ args \in CommandLines
    /\ env \in Environments
    /\ mode = ""
    /\ topics = <<>>
    /\ item = 0
    /\ gen = <<>>
    /\ payload = <<>>
    /\ log = <<>>
    /\ files = <<>>
    /\ stdout = <<>>
    /\ status = "running"

\* what the run did, in order: each backend call with the response it got,
\* each validation, each file written with the meta of the item it belongs to
Event(op, data) == [op |-> op, item |-> item, data |-> data]

Raise(exc) ==
    /\ pc' = "raised"
    /\ status' = exc

Exit(code, message) ==
    /\ pc' = "exited"
    /\ status' = code
    /\ stdout' = IF message = "" THEN stdout ELSE Append(stdout, message)

\* main up to the dispatch: load_config, then the four checks in order
Main ==
    /\ pc = "main"
    /\ IF env.config = "missing"
       THEN Raise("FileNotFoundError") /\ UNCHANGED stdout
       ELSE IF env.config = "empty"
            THEN Exit("exit 1", "Config not found or empty.")
       ELSE IF args.topic = "" /\ args.calendar = ""
            THEN Exit("exit 1", "Provide --topic or --calendar.")
       ELSE IF env.config = "missing"
            THEN Exit("exit 1", "Config file missing.")
       ELSE IF ~env.apikey
            THEN Exit("exit 1", "Missing OPENAI_API_KEY environment variable.")
       ELSE /\ pc' = IF args.topic # "" THEN "run_single" ELSE "run_calendar"
            /\ UNCHANGED <<status, stdout>>
    /\ UNCHANGED <<harnessVars, args, env, mode, topics, item, gen, payload, log, files>>

\* run_single up to generate_package: ContentWriter(args.config)
RunSingle ==
    /\ pc = "run_single"
    /\ IF env.config = "incomplete"
       THEN Raise("KeyError") /\ UNCHANGED <<mode, item, gen>>
       ELSE /\ mode' = "single"
            /\ item' = 0
            /\ gen' = [topic |-> args.topic]
            /\ pc' = "outline"
            /\ UNCHANGED status
    /\ UNCHANGED <<harnessVars, args, env, topics, payload, log, files, stdout>>

\* run_calendar up to its loop: ContentWriter(args.config), generate_topics
RunCalendar ==
    /\ pc = "run_calendar"
    /\ IF env.config = "incomplete"
       THEN Raise("KeyError") /\ UNCHANGED <<mode, item, topics, log>>
       ELSE \E raw \in TopicResponses :
            \E arr \in (IF InStr("a", raw) THEN TopicLists ELSE {<<>>}) :
              LET result == generate_topics(Strip(raw), arr)
              IN  /\ log' = Append(log, Event("topics", raw))
                  /\ mode' = "calendar"
                  /\ IF result.kind = "raise"
                     THEN Raise(result.value) /\ UNCHANGED <<item, topics>>
                     ELSE /\ topics' = result.value.v
                          /\ item' = 1
                          /\ pc' = "next_topic"
                          /\ UNCHANGED status
    /\ UNCHANGED <<harnessVars, args, env, gen, payload, files, stdout>>

\* the head of run_calendar's loop: the next item's title, or the return to
\* main, which returns 0
NextTopic ==
    /\ pc = "next_topic"
    /\ IF item > Len(topics)
       THEN Exit("exit 0", "") /\ UNCHANGED gen
       ELSE /\ gen' = [topic |-> IF "title" \in DOMAIN topics[item]
                                 THEN topics[item].title ELSE "Untitled topic"]
            /\ pc' = "outline"
            /\ UNCHANGED <<status, stdout>>
    /\ UNCHANGED <<harnessVars, args, env, mode, topics, item, payload, log, files>>

\* generate_package: outline = self.generate_outline(...)
GenerateOutline ==
    /\ pc = "outline"
    /\ \E resp \in OutlineResponses :
         /\ log' = Append(log, Event("outline", resp))
         /\ gen' = [topic |-> gen.topic, outline |-> Strip(resp)]
    /\ pc' = "article"
    /\ UNCHANGED <<harnessVars, args, env, mode, topics, item, payload, files, stdout, status>>

\* generate_package: article = self.generate_article(outline, ...)
GenerateArticle ==
    /\ pc = "article"
    /\ \E resp \in ArticleResponses :
         /\ log' = Append(log, Event("article", resp))
         /\ gen' = [topic |-> gen.topic, outline |-> gen.outline, article |-> Strip(resp)]
    /\ pc' = "self_check"
    /\ UNCHANGED <<harnessVars, args, env, mode, topics, item, payload, files, stdout, status>>

SelfCheckSkipped ==
    /\ pc = "self_check"
    /\ gen' = [topic |-> gen.topic, outline |-> gen.outline, article |-> gen.article,
               errors |-> <<>>]
    /\ pc' = "extract"
    /\ UNCHANGED <<harnessVars, args, env, mode, topics, item, payload, log, files, stdout, status>>

\* generate_package: errors = self.self_check(article); if errors: ...
SelfCheck ==
    /\ pc = "self_check"
    /\ gen' = [topic |-> gen.topic, outline |-> gen.outline, article |-> gen.article,
               errors |-> self_check_of[gen.article]]
    /\ pc' = IF self_check_of[gen.article] # <<>> THEN "revise" ELSE "extract"
    /\ UNCHANGED <<harnessVars, args, env, mode, topics, item, payload, log, files, stdout, status>>

\* generate_package: article = self.revise_article(article, errors)
ReviseArticle ==
    /\ pc = "revise"
    /\ \E resp \in ArticleResponses :
         /\ log' = Append(log, Event("revise", resp))
         /\ gen' = [gen EXCEPT !.article = Strip(resp)]
    /\ pc' = "extract"
    /\ UNCHANGED <<harnessVars, args, env, mode, topics, item, payload, files, stdout, status>>

\* a backend call that fails: nothing handles the error, which ends the run
BackendFails ==
    /\ \/ pc \in {"outline", "article", "revise"}
       \/ pc = "run_calendar" /\ env.config # "incomplete"
    /\ log' = Append(log, Event(IF pc = "run_calendar" THEN "topics" ELSE pc, "failed"))
    /\ Raise("APIError")
    /\ UNCHANGED <<harnessVars, args, env, mode, topics, item, gen, payload, files, stdout>>

\* generate_package: _extract_meta, _extract_social and the returned dict
Assemble ==
    /\ pc = "extract"
    /\ LET extracted == extract_meta_of[gen.article]
       IN  payload' =
             [article |-> gen.article,
              social |-> extract_social_of[gen.article],
              meta |->
                [title |-> JStr(gen.topic),
                 keywords |-> JArr([i \in 1..Len(IF extracted.keywords # <<>>
                                                 THEN extracted.keywords
                                                 ELSE FallbackKeywords) |->
                                      JStr((IF extracted.keywords # <<>>
                                            THEN extracted.keywords
                                            ELSE FallbackKeywords)[i])]),
                 description |-> JStr(extracted.description),
                 platform |-> JStr("linkedin"),
                 slug |-> JStr("")]]
    /\ pc' = "validate"
    /\ UNCHANGED <<harnessVars, args, env, mode, topics, item, gen, log, files, stdout, status>>

\* the meta with slug and date filled in by run_single / run_calendar
Stamped(meta, topic) ==
    ("date" :> JStr(Today)) @@ [meta EXCEPT !["slug"] = JStr(slugify(topic))]

ValidateThenSkipItem ==
    /\ pc = "validate"
    /\ payload' = [payload EXCEPT !.meta = Stamped(payload.meta, gen.topic)]
    /\ log' = Append(log, Event("validate", ""))
    /\ IF validate_meta(Stamped(payload.meta, gen.topic)) # <<>>
       THEN /\ pc' = IF mode = "calendar" THEN "next_topic" ELSE "raised"
            /\ item' = item + 1
       ELSE pc' = "write_article" /\ UNCHANGED item
    /\ UNCHANGED <<harnessVars, args, env, mode, topics, gen, files, stdout, status>>

ValidateWithoutRaising ==
    /\ pc = "validate"
    /\ payload' = [payload EXCEPT !.meta = Stamped(payload.meta, gen.topic)]
    /\ log' = Append(log, Event("validate", ""))
    /\ pc' = "write_article"
    /\ UNCHANGED <<harnessVars, args, env, mode, topics, item, gen, files, stdout, status>>

\* slug, date, validate_meta, validate_meta_schema
Validate ==
    /\ pc = "validate"
    /\ payload' = [payload EXCEPT !.meta = Stamped(payload.meta, gen.topic)]
    /\ log' = Append(log, Event("validate", ""))
    /\ IF validate_meta(Stamped(payload.meta, gen.topic)) # <<>>
       THEN Raise("ValueError")
       ELSE IF validate_meta_schema(Stamped(payload.meta, gen.topic)) # "ok"
            THEN Raise("ValidationError")
       ELSE pc' = "write_article" /\ UNCHANGED status
    /\ UNCHANGED <<harnessVars, args, env, mode, topics, item, gen, files, stdout>>

\* utils.get_output_dir("outputs", topic=topic)
get_output_dir(base_dir, topic) ==
    IF topic # ""
    THEN base_dir \o "/" \o Today \o "/" \o slugify(topic)
    ELSE base_dir \o "/" \o Today

WriteFile(name, content) ==
    /\ files' = ((get_output_dir("outputs", gen.topic) \o "/" \o name) :> content) @@ files
    /\ log' = Append(log, Event("write " \o name, payload.meta))

\* write_outputs: article.md, social.md, meta.json, in this order
WriteArticle ==
    /\ pc = "write_article"
    /\ WriteFile("article.md", payload.article)
    /\ pc' = "write_social"
    /\ UNCHANGED <<harnessVars, args, env, mode, topics, item, gen, payload, stdout, status>>

WriteSocial ==
    /\ pc = "write_social"
    /\ WriteFile("social.md", payload.social)
    /\ pc' = "write_meta"
    /\ UNCHANGED <<harnessVars, args, env, mode, topics, item, gen, payload, stdout, status>>

\* the last write, and what follows it: in main after run_single, the
\* calendar run if one was asked for, else return 0; in run_calendar, the
\* next topic
WriteMeta ==
    /\ pc = "write_meta"
    /\ WriteFile("meta.json", payload.meta)
    /\ IF mode = "single"
       THEN IF args.calendar # ""
            THEN pc' = "run_calendar" /\ UNCHANGED <<item, status, stdout>>
            ELSE Exit("exit 0", "") /\ UNCHANGED item
       ELSE /\ item' = item + 1
            /\ pc' = "next_topic"
            /\ UNCHANGED <<status, stdout>>
    /\ UNCHANGED <<harnessVars, args, env, mode, topics, gen, payload>>

Next ==
    \/ Main
    \/ RunSingle
    \/ RunCalendar
    \/ NextTopic
    \/ GenerateOutline
    \/ GenerateArticle
    \/ SelfCheck
    \/ ReviseArticle
    \/ BackendFails
    \/ Assemble
    \/ Validate
    \/ WriteArticle
    \/ WriteSocial
    \/ WriteMeta

Spec == Init /\ [][Next]_vars

(***************************************************************************)
(* Properties                                                              *)
(***************************************************************************)
BackendOps == {"topics", "outline", "article", "revise"}
WriteOps == {"write article.md", "write social.md", "write meta.json"}

IsBackendCall(e) == e.op \in BackendOps
IsWrite(e) == e.op \in WriteOps

PassesBoth(meta) == validate_meta(meta) = <<>> /\ validate_meta_schema(meta) = "ok"

EndsWith(s, suffix) ==
    Len(s) >= Len(suffix) /\ SubSeq(s, Len(s) - Len(suffix) + 1, Len(s)) = suffix

\* C1: every file of an item is written after the item's meta was validated
\* and passed both validate_meta and the META_SCHEMA validation: each
\* meta.json on disk passes both, each write (article.md, social.md,
\* meta.json) belongs to an item whose meta passes both and follows that
\* item's validation, and the run is about to write only with such a meta.
C1_WrittenOnlyAfterValidation ==
    /\ \A path \in DOMAIN files :
         EndsWith(path, "/meta.json") => PassesBoth(files[path])
    /\ \A k \in 1..Len(log) :
         IsWrite(log[k]) =>
            /\ PassesBoth(log[k].data)
            /\ \E j \in 1..(k - 1) : log[j].op = "validate" /\ log[j].item = log[k].item
    /\ pc \in {"write_article", "write_social", "write_meta"} => PassesBoth(payload.meta)

\* C1 witness: a meta.json is on disk, and another run of the validation
\* has refused a meta, with nothing of that item written
C1_Witness ==
    /\ \E path \in DOMAIN files : EndsWith(path, "/meta.json")
    /\ status = "ValueError"
    /\ ~PassesBoth(payload.meta)
    /\ \A k \in 1..Len(log) : IsWrite(log[k]) => log[k].item # item

\* the backend calls made for the current item, in order
CallsOfItem(i) ==
    LET OfItem(e) == e.item = i /\ e.op \in {"outline", "article", "revise"}
    IN  SelectSeq(log, OfItem)

IsPrefix(a, b) == Len(a) <= Len(b) /\ SubSeq(b, 1, Len(a)) = a

OpsOf(events) == [k \in 1..Len(events) |-> events[k].op]

\* C2: each generate_package run calls the backend for the outline, then the
\* article, then once for a revision exactly when self_check of the article
\* text found errors, and never again; the package's article is the
\* revision's text when there was one and the article call's text otherwise.
C2_CallOrderAndRevision ==
    /\ \A i \in 0..Len(topics) :
         IsPrefix(OpsOf(CallsOfItem(i)), <<"outline", "article", "revise">>)
    /\ pc \in {"validate", "write_article", "write_social", "write_meta"} =>
         LET calls == CallsOfItem(item)
             draft == Strip(calls[2].data)
         IN  /\ Len(calls) \in {2, 3}
             /\ Len(calls) = 3 <=> self_check_of[draft] # <<>>
             /\ payload.article = Strip(calls[Len(calls)].data)

\* C2 witness: a package assembled after a revision, whose article is the
\* revision's text and differs from the text that failed self_check
C2_Witness ==
    /\ pc = "validate"
    /\ Len(CallsOfItem(item)) = 3
    /\ payload.article = Strip(CallsOfItem(item)[3].data)
    /\ payload.article # Strip(CallsOfItem(item)[2].data)
    /\ self_check_of[Strip(CallsOfItem(item)[2].data)] # <<>>

ConfigurationError ==
    \/ env.config = "missing"
    \/ env.config = "empty"
    \/ args.topic = "" /\ args.calendar = ""
    \/ ~env.apikey

\* C3: on each configuration error (config file missing, config empty,
\* neither --topic nor --calendar, no OPENAI_API_KEY) main returns 1 after
\* printing one short message, with no backend call made and no file written.
C3_ConfigurationErrorsExitOne ==
    (pc # "main" /\ ConfigurationError) =>
        /\ status = "exit 1"
        /\ Len(stdout) = 1
        /\ log = <<>>
        /\ files = <<>>

\* C3, what the code does keep: after a configuration error no backend call
\* is made and no file is written, however main ends
C3_NothingDoneOnConfigurationError ==
    ConfigurationError => log = <<>> /\ files = <<>>

\* C4: for a response that is not valid JSON and from which no JSON object
\* can be obtained (no brace-delimited part, or one that is not valid JSON),
\* generate_topics returns an empty list and raises nothing.
C4_UnparseableGivesNoTopics ==
    (/\ phase = "returned"
     /\ ~json_loads(inp, OneTopic).ok
     /\ BraceMatch(inp) = "" \/ ~json_loads(BraceMatch(inp), OneTopic).ok) =>
        /\ out.kind = "return"
        /\ out.value.t = "array"
        /\ out.value.v = <<>>

\* C4, what the code does keep: without any brace-delimited part the result
\* is the empty list
C4_NoBracesGivesNoTopics ==
    (phase = "returned" /\ ~json_loads(inp, OneTopic).ok /\ BraceMatch(inp) = "") =>
        out.kind = "return" /\ out.value.t = "array" /\ out.value.v = <<>>

Has(errors, message) == \E k \in 1..Len(errors) : errors[k] = message

\* the article of inp with nothing removed
FullArticle == [inp EXCEPT !.removed = "none"]

\* C5: removing only the line of a required heading h from an article that
\* passes self_check makes self_check report "Missing heading: h".
C5_EachHeadingOmissionReported ==
    \A i \in 1..Len(REQUIRED_HEADINGS) :
        (/\ phase = "checked"
         /\ inp.removed = REQUIRED_HEADINGS[i]
         /\ self_check(ArticleText(FullArticle)) = <<>>) =>
            Has(out.errors, "Missing heading: " \o REQUIRED_HEADINGS[i])

\* C5, what the code does keep: the omission of each "## " heading is reported
C5_SectionHeadingOmissionReported ==
    \A i \in 2..Len(REQUIRED_HEADINGS) :
        (phase = "checked" /\ inp.removed = REQUIRED_HEADINGS[i]) =>
            Has(out.errors, "Missing heading: " \o REQUIRED_HEADINGS[i])

\* C6: self_check reports "Contains em dash." exactly when the text contains
\* an em dash.
C6_EmDashReportedExactlyWhenPresent ==
    phase = "checked" =>
        (Has(out.errors, "Contains em dash.") <=> Contains(ArticleText(inp), EmDash))

KeywordsAreFiveStrings(meta) ==
    /\ "keywords" \in DOMAIN meta
    /\ meta["keywords"].t = "array"
    /\ Len(meta["keywords"].v) = 5
    /\ \A i \in 1..Len(meta["keywords"].v) : meta["keywords"].v[i].t = "string"

DescriptionInRange(meta) ==
    /\ "description" \in DOMAIN meta
    /\ meta["description"].t = "string"
    /\ Len(meta["description"].v) >= 155
    /\ Len(meta["description"].v) <= 160

\* C8 as stated: the schema accepts a meta exactly when it has the six keys
\* and no others, keywords is a list of exactly 5 strings and description
\* is 155 to 160 characters long.
C8_AcceptedExactlyWhenStated ==
    phase = "validated" =>
        (out[1] = "ok" <=>
            /\ DOMAIN inp = MetaKeys
            /\ KeywordsAreFiveStrings(inp)
            /\ DescriptionInRange(inp))

\* C8 amended: the schema accepts a meta exactly when it has the six keys
\* and no others, title, description, platform, date and slug are strings,
\* keywords is a list of exactly 5 strings and description is 155 to 160
\* characters long.
C8_AcceptedExactlyWhenWellTyped ==
    phase = "validated" =>
        (out[1] = "ok" <=>
            /\ DOMAIN inp = MetaKeys
            /\ \A k \in ScalarKeys : inp[k].t = "string"
            /\ KeywordsAreFiveStrings(inp)
            /\ DescriptionInRange(inp))

\* C8 witness: a meta of six string-valued keys with 5 keywords and a
\* description of 160 characters has been accepted
C8_Witness ==
    /\ phase = "validated"
    /\ out[1] = "ok"
    /\ DOMAIN inp = MetaKeys
    /\ Len(inp["description"].v) = 160
    /\ Len(inp["keywords"].v) = 5

CompleteArticle ==
    /\ inp.removed = "none"
    /\ inp.sections + 4 >= 6
    /\ ~Contains(inp.extra, EmDash)
    /\ inp.extra # ClaimSentence
    /\ inp.terms = 5
    /\ inp.sep = ", "
    /\ inp.desc # ""

\* C9: an article with all five heading lines, at least 6 "## " headings, a
\* bullet checklist, no em dash and no first-person percentage claim, a
\* keywords line of exactly 5 comma-separated terms, a description line and
\* the social section passes self_check with no error, and _extract_meta
\* returns those 5 terms in order and that description.
C9_CompleteArticlePassesAndExtracts ==
    (phase = "extracted" /\ CompleteArticle) =>
        /\ out.errors = <<>>
        /\ out.meta.keywords = TermList(5)
        /\ out.meta.description = inp.desc

\* C9, what the code does keep: the same for articles that also lack the
\* three characters self_check looks for in place of the em dash
C9_CompleteArticleWithoutLiteralPasses ==
    (phase = "extracted" /\ CompleteArticle /\ ~Contains(inp.extra, Mojibake)) =>
        /\ out.errors = <<>>
        /\ out.meta.keywords = TermList(5)
        /\ out.meta.description = inp.desc

RulesJustFailed ==
    /\ mode = "calendar"
    /\ log # <<>>
    /\ log[Len(log)].op = "validate"
    /\ validate_meta(payload.meta) # <<>>

\* C7: in calendar mode the topics are processed one after another in list
\* order, and when validate_meta reports errors for a topic the run ends
\* with that error: nothing of that topic is written, nothing of a later
\* topic is called or written, and the run takes no further step.
C7_SequentialAndAbortsOnInvalidMeta ==
    /\ \A k \in 1..Len(log) : \A j \in 1..(k - 1) : log[j].item <= log[k].item
    /\ RulesJustFailed =>
         /\ pc = "raised"
         /\ status = "ValueError"
         /\ \A k \in 1..Len(log) : log[k].item >= item => ~IsWrite(log[k])
         /\ \A k \in 1..Len(log) : log[k].item <= item
         /\ ~ENABLED Next

\* C7 witness: the second topic's meta failed validate_meta after the first
\* topic's three files were written
C7_Witness ==
    /\ RulesJustFailed
    /\ item = 2
    /\ Len(topics) >= 2
    /\ \E k \in 1..Len(log) : log[k].op = "write meta.json" /\ log[k].item = 1

SlugChars == LowerChars \o DigitChars \o "-"

\* C10: slugify's output is never empty and holds only a-z, 0-9 and "-"; it
\* is "untitled" when the input has no letter, digit or hyphen; it is
\* "hello-world" for "Hello World!"; and slugify of the output is the output.
C10_SlugifyIdempotentAndSafe ==
    /\ phase \in {"once", "twice"} =>
         /\ out[1] # ""
         /\ \A i \in 1..Len(out[1]) : InStr(Char(out[1], i), SlugChars)
         /\ (\A i \in 1..Len(inp) : ~IsAlnum(Char(inp, i)) /\ Char(inp, i) # "-")
               => out[1] = "untitled"
         /\ inp = "Hello World!" => out[1] = "hello-world"
    /\ phase = "twice" => out[2] = out[1]

\* C10 witness: an input with upper case, punctuation and runs of spaces and
\* hyphens has been slugified twice
C10_Witness ==
    /\ phase = "twice"
    /\ inp = "B -!"
    /\ out[1] = "b-"
    /\ out[2] = "b-"

=============================================================================
